---- MODULE Spec2Model ----
(***************************************************************************)
(* Rolling-window threshold detector (core/monitor.py, start_monitoring)   *)
(* and post-alert tracking sessions (core/price_tracker.py, PriceTracker). *)
(*                                                                         *)
(* Time is counted in units of one sleep interval of the loop              *)
(* (time.sleep(10)).  Window lengths and the tracking duration are scaled  *)
(* down to a few units so that pruning and expiry happen within MaxTime.   *)
(* Prices and thresholds are integers; a percentage change is the exact    *)
(* rational <<numerator, denominator>> in lowest terms (float rounding is  *)
(* not modelled).  The loop is modelled with test_mode = False.            *)
(***************************************************************************)
EXTENDS Integers, Sequences, FiniteSets, TLC

VARIABLES
    clock,              \* the wall clock, datetime.now(timezone.utc)
    state,              \* load_state(): symbol -> configuration, read once
    history,            \* monitor: symbol -> sequence of <<time, price>>
    tracking_sessions,  \* PriceTracker.tracking_sessions, in insertion order
    now,                \* monitor: `now` of the current iteration
    prices,             \* monitor: `prices` of the current iteration
    pc,                 \* position of the loop
    idx,                \* position of `for symbol, config in state.items()`
    percentage_change,  \* monitor: `percentage_change` of the current symbol
    alerts,             \* messages handed to send_telegram_message this iteration
    saved,              \* sessions written by _save_tracking_session this iteration
    tracker_prices,     \* update_tracking_data: its own `prices`, while it runs
    tracker_now,        \* update_tracking_data: its own `now`, while it runs
    call,               \* the last PriceTracker method called directly (TrackerSpec)
    last_alert,         \* history variable: per symbol, the sample of its last alert
                        \* and whether every price appended since equals it
    save_calls,         \* history variable: the session_id of every session handed
                        \* to _save_tracking_session since the start, in order
    send_failed,        \* per message of `alerts`: its delivery raised inside
                        \* send_telegram_message
    save_failed,        \* the session_id of the sessions whose file could not be
                        \* written by _save_tracking_session this iteration
    stop_requested      \* a stop of the loop has been asked for from outside

vars == <<clock, state, history, tracking_sessions, now, prices, pc, idx,
          percentage_change, alerts, saved, tracker_prices, tracker_now, call,
          last_alert, save_calls, send_failed, save_failed, stop_requested>>

----------------------------------------------------------------------------
(* Bounds of the model *)

MaxTime == 3
MaxJitter == 1
MaxSamples == 3

(* Program constants, in model time units *)

TrackingDuration == 2
SleepUnits == 1

SymOrder == <<"A", "B">>
Symbols == {SymOrder[i] : i \in 1..Len(SymOrder)}

\* Prices the feed may report: zero, a base price and a price 6% above it.
\* The second symbol is quoted at the base price only, which keeps the two
\* symbols' histories from multiplying.
Prices == {0, 100, 106}
PricesOf(symbol) == IF symbol = SymOrder[1] THEN Prices ELSE {100}

\* A result of get_all_futures_prices(): a mapping from some symbols to
\* prices; the empty mapping also stands for a failed request.
FeedResults ==
    UNION {{f \in [D -> Prices] : \A s \in D : f[s] \in PricesOf(s)} : D \in SUBSET Symbols}
EmptyFeed == <<>>

Config(enabled, threshold, window_minutes, alert_on_up, alert_on_down) ==
    [enabled |-> enabled, threshold |-> threshold, window_minutes |-> window_minutes,
     alert_on_up |-> alert_on_up, alert_on_down |-> alert_on_down]

\* The configurations load_state() may return.
FirstState ==
    [s \in Symbols |-> IF s = SymOrder[1] THEN Config(TRUE, 5, 2, TRUE, TRUE)
                                          ELSE Config(TRUE, 0, 1, TRUE, TRUE)]

States ==
    { FirstState,
      [s \in Symbols |-> IF s = SymOrder[1] THEN Config(TRUE, 6, 1, TRUE, TRUE)
                                            ELSE Config(TRUE, 5, 2, TRUE, TRUE)],
      [s \in Symbols |-> IF s = SymOrder[1] THEN Config(TRUE, 5, 2, FALSE, TRUE)
                                            ELSE Config(FALSE, 5, 2, TRUE, TRUE)] }

----------------------------------------------------------------------------
(* Arithmetic *)

Abs(x) == IF x < 0 THEN -x ELSE x

RECURSIVE Gcd(_, _)
Gcd(a, b) == IF b = 0 THEN a ELSE Gcd(b, a % b)

\* The rational n/d (d # 0) in lowest terms with a positive denominator.
Rat(n, d) ==
    LET g == Gcd(Abs(n), Abs(d))
        s == IF d < 0 THEN -1 ELSE 1
    IN  <<(s * n) \div g, (s * d) \div g>>

RatAbs(r) == <<Abs(r[1]), r[2]>>
RatGeq(r, k) == r[1] >= k * r[2]
RatLeq(r, k) == r[1] <= k * r[2]
NoChange == <<0, 0>>

\* ((price - oldest_price) / oldest_price) * 100, for oldest_price # 0
PctChange(price, oldest_price) == Rat((price - oldest_price) * 100, oldest_price)

----------------------------------------------------------------------------
(* Timestamps as the tracker stores them *)

IsoFormat(t) == <<"iso", t>>
FromIsoFormat(s) == s[2]
SessionId(symbol, t) == <<symbol, "ymd_hms", t>>

SeqToSet(s) == {s[i] : i \in 1..Len(s)}

----------------------------------------------------------------------------
(* PriceTracker *)

\* is_tracking that only sees sessions with a sample after the first: a
\* session started on this tick is not found.
IsTrackingSampled(ts, symbol) ==
    \E i \in 1..Len(ts) : ts[i].symbol = symbol /\ Len(ts[i].price_data) >= 2

\* is_tracking: symbol in self.tracking_sessions
IsTracking(ts, symbol) == \E i \in 1..Len(ts) : ts[i].symbol = symbol

SessionOf(ts, symbol) == ts[CHOOSE i \in 1..Len(ts) : ts[i].symbol = symbol]

\* A tracking_info whose end_time is one alert window after the start.
NewSessionWindowLong(symbol, initial_price, threshold_type, threshold_value, window_minutes, t) ==
    [symbol          |-> symbol,
     start_time      |-> IsoFormat(t),
     end_time        |-> IsoFormat(t + window_minutes),
     initial_price   |-> initial_price,
     threshold_type  |-> threshold_type,
     threshold_value |-> threshold_value,
     window_minutes  |-> window_minutes,
     price_data      |-> << <<IsoFormat(t), initial_price>> >>,
     session_id      |-> SessionId(symbol, t)]

\* The tracking_info dictionary built by start_tracking at time t.
NewSession(symbol, initial_price, threshold_type, threshold_value, window_minutes, t) ==
    [symbol          |-> symbol,
     start_time      |-> IsoFormat(t),
     end_time        |-> IsoFormat(t + TrackingDuration),
     initial_price   |-> initial_price,
     threshold_type  |-> threshold_type,
     threshold_value |-> threshold_value,
     window_minutes  |-> window_minutes,
     price_data      |-> << <<IsoFormat(t), initial_price>> >>,
     session_id      |-> SessionId(symbol, t)]

\* start_tracking with a guard of its own: an active session is kept.
StartTrackingGuarded(ts, info) ==
    IF IsTracking(ts, info.symbol) THEN ts ELSE Append(ts, info)

\* self.tracking_sessions[symbol] = tracking_info: an existing key keeps its
\* place in the dictionary and gets the new value; a new key goes last.
StartTracking(ts, info) ==
    IF IsTracking(ts, info.symbol)
    THEN [i \in 1..Len(ts) |-> IF ts[i].symbol = info.symbol THEN info ELSE ts[i]]
    ELSE Append(ts, info)

\* prices = [price[1] for price in price_data]
SamplePrices(price_data) == [i \in 1..Len(price_data) |-> price_data[i][2]]

\* max(prices), min(prices)
MaxPrice(ps) == CHOOSE x \in SeqToSet(ps) : \A y \in SeqToSet(ps) : y <= x
MinPrice(ps) == CHOOSE x \in SeqToSet(ps) : \A y \in SeqToSet(ps) : x <= y

\* percent_changes: (prices[i] - prices[i-1]) / prices[i-1] * 100 for each
\* step, defined when no price that has a successor is 0
PercentChanges(ps) ==
    [i \in 1..(Len(ps) - 1) |-> Rat((ps[i + 1] - ps[i]) * 100, ps[i])]

\* sum(1 for change in percent_changes if change > 0), and < 0, and == 0
PositiveMoves(pcs) == Cardinality({i \in 1..Len(pcs) : pcs[i][1] > 0})
NegativeMoves(pcs) == Cardinality({i \in 1..Len(pcs) : pcs[i][1] < 0})
NeutralMoves(pcs)  == Cardinality({i \in 1..Len(pcs) : pcs[i][1] = 0})

\* The label taken from the highest price instead of the last one.
TrendOfPeak(final_change, max_change) ==
    IF max_change[1] > 0 THEN "bullish"
    ELSE IF max_change[1] < 0 THEN "bearish" ELSE "neutral"

\* 'bullish' if final_change > 0 else 'bearish' if final_change < 0 else 'neutral'
TrendDirection(final_change, max_change) ==
    IF final_change[1] > 0 THEN "bullish"
    ELSE IF final_change[1] < 0 THEN "bearish" ELSE "neutral"

\* tracking_info['analytics'].  Of its fields the averages, the volatility,
\* the ratios and the time metrics are left out (floating-point statistics
\* and calendar values).
Analytics(info) ==
    LET ps            == SamplePrices(info.price_data)
        initial_price == info.initial_price
        final_price   == ps[Len(ps)]
        max_price     == MaxPrice(ps)
        min_price     == MinPrice(ps)
        final_change  == PctChange(final_price, initial_price)
        max_change    == PctChange(max_price, initial_price)
        min_change    == PctChange(min_price, initial_price)
        pcs           == PercentChanges(ps)
    IN  [final_price           |-> final_price,
         max_price             |-> max_price,
         min_price             |-> min_price,
         price_range           |-> max_price - min_price,
         final_change_percent  |-> final_change,
         max_change_percent    |-> max_change,
         min_change_percent    |-> min_change,
         price_movements_count |-> Len(pcs),
         positive_moves        |-> PositiveMoves(pcs),
         negative_moves        |-> NegativeMoves(pcs),
         neutral_moves         |-> NeutralMoves(pcs),
         trend_direction       |-> TrendDirection(final_change, max_change),
         total_data_points     |-> Len(info.price_data),
         alert_magnitude       |-> info.threshold_value,
         alert_direction       |-> IF info.threshold_type = "up" THEN 1 ELSE -1,
         monitoring_window_minutes |-> info.window_minutes]

\* tracking_info['summary'], from the values computed for the analytics a
Summary(a) ==
    [final_price          |-> a.final_price,
     final_change_percent |-> a.final_change_percent,
     max_price            |-> a.max_price,
     max_change_percent   |-> a.max_change_percent,
     min_price            |-> a.min_price,
     min_change_percent   |-> a.min_change_percent,
     total_data_points    |-> a.total_data_points]

\* if len(price_data) > 1
HasStatistics(info) == Len(info.price_data) > 1

\* tracking_info as _save_tracking_session leaves it and writes it to the
\* file, when it does not raise: with 'analytics' and 'summary' added if the
\* session has more than one sample.
WrittenRecord(info) ==
    IF HasStatistics(info)
    THEN CHOOSE r \in {[analytics |-> a, summary |-> Summary(a)] @@ info :
                         a \in {Analytics(info)}} : TRUE
    ELSE info

\* _save_tracking_session raises (outside its try block) when the statistics
\* divide by zero: by initial_price, or by a recorded price that has a successor.
SaveRaises(info) ==
    /\ HasStatistics(info)
    /\ \/ info.initial_price = 0
       \/ \E i \in 1..(Len(info.price_data) - 1) : info.price_data[i][2] = 0

\* The expiry test with > for >=.
ExpiredLate(info, t) == t > FromIsoFormat(info.end_time)

\* if now >= end_time, with end_time parsed back from the stored string
Expired(info, t) == t >= FromIsoFormat(info.end_time)

\* The new sample put in the place of the recorded ones.
KeepLastSample(price_data, t, price) == << <<IsoFormat(t), price>> >>

\* tracking_info['price_data'].append((now.isoformat(), current_price))
AppendSample(price_data, t, price) == Append(price_data, <<IsoFormat(t), price>>)

\* One pass of `for symbol, tracking_info in self.tracking_sessions.items()`
\* from position i, at time t with feed result p.  acc.written: the symbols
\* whose _save_tracking_session call returned; acc.raised: an exception left
\* the loop (nothing after it runs, completed sessions are not removed).
RECURSIVE TrackLoop(_, _, _, _)
TrackLoop(acc, i, t, p) ==
    IF acc.raised \/ i > Len(acc.ts) THEN acc
    ELSE LET info == acc.ts[i] IN
         IF Expired(info, t)
         THEN TrackLoop([acc EXCEPT !.completed = Append(@, info.symbol),
                                    !.written = IF SaveRaises(info) THEN @
                                                ELSE Append(@, info.symbol),
                                    !.raised = SaveRaises(info)],
                        i + 1, t, p)
         ELSE IF info.symbol \in DOMAIN p
         THEN TrackLoop([acc EXCEPT !.ts[i].price_data = AppendSample(@, t, p[info.symbol]),
                                    !.raised = (info.initial_price = 0)],
                        i + 1, t, p)
         ELSE TrackLoop(acc, i + 1, t, p)

\* The session_id of each session the loop handed to _save_tracking_session
\* (every symbol of completed_sessions, the one whose save raised included).
HandedIds(ts, completed) ==
    [i \in 1..Len(completed) |-> SessionOf(ts, completed[i]).session_id]

\* The completed sessions left in the dictionary.
RemoveNothing(ts, completed) == ts

\* for symbol in completed_sessions: del self.tracking_sessions[symbol]
RemoveCompleted(ts, completed) ==
    SelectSeq(ts, LAMBDA s : s.symbol \notin SeqToSet(completed))

\* update_tracking_data after its early returns: the loop, then the removal
\* of the completed sessions.  A save that returns has written the session
\* as WrittenRecord gives it (a session is not appended to in the pass that
\* saves it) and has left the same dictionary in tracking_sessions.
AfterLoop(acc, ts, oldsaved) ==
    LET left == IF acc.raised THEN acc.ts ELSE RemoveCompleted(acc.ts, acc.completed)
    IN  [ts        |-> [i \in 1..Len(left) |->
                          IF left[i].symbol \in SeqToSet(acc.written)
                          THEN WrittenRecord(left[i]) ELSE left[i]],
         completed |-> acc.completed,
         saved     |-> oldsaved \o [k \in 1..Len(acc.written) |->
                                      WrittenRecord(SessionOf(ts, acc.written[k]))],
         raised    |-> acc.raised]

\* The outcomes of the file writes of a pass (open and json.dump inside the
\* try block): the set of the records, by session_id, whose write raised.
WriteFailures(records) == SUBSET {records[k].session_id : k \in 1..Len(records)}

\* The records that reached their files, and the ids of those that did not.
WrittenFiles(records, fails) == SelectSeq(records, LAMBDA r : r.session_id \notin fails)
FailedIds(records, fails) ==
    LET f == SelectSeq(records, LAMBDA r : r.session_id \in fails)
    IN  [k \in 1..Len(f) |-> f[k].session_id]

\* A failed write raising out of _save_tracking_session.
WriteRaisesOnFailure(fails) == fails # {}

\* except Exception as e: print(...) -- a failed write is caught inside
\* _save_tracking_session, which returns as after a successful one
WriteRaises(fails) == FALSE

TrackerPass(ts, oldsaved, t, p) ==
    CHOOSE r \in {AfterLoop(acc, ts, oldsaved) :
                    acc \in {TrackLoop([ts |-> ts, completed |-> <<>>, written |-> <<>>,
                                        raised |-> FALSE], 1, t, p)}} : TRUE

----------------------------------------------------------------------------
(* The monitor loop *)

TypeOK ==
    /\ clock \in 0..MaxTime
    /\ now \in 0..MaxTime
    /\ pc \in {"fetch", "track", "track_loop", "update", "change", "alert",
               "sleep", "crashed"}
    /\ idx \in 1..Len(SymOrder)

Init ==
    /\ clock = 0
    /\ state \in States
    /\ history = [s \in Symbols |-> <<>>]
    /\ tracking_sessions = <<>>
    /\ now = 0
    /\ prices = EmptyFeed
    /\ pc = "fetch"
    /\ idx = 1
    /\ percentage_change = NoChange
    /\ alerts = <<>>
    /\ saved = <<>>
    /\ tracker_prices = EmptyFeed
    /\ tracker_now = 0
    /\ call = [op |-> "none"]
    /\ last_alert = [s \in Symbols |-> <<>>]
    /\ save_calls = <<>>
    /\ send_failed = <<>>
    /\ save_failed = <<>>
    /\ stop_requested = FALSE

\* The empty-feed test left out.
SkipTickNever(p) == FALSE

\* if not prices
SkipTick(p) == p = EmptyFeed

\* The symbol loop entered right after the feed test, the tracker left out.
AfterFeedTestDetect == "update"

\* What follows the feed test in an iteration with prices:
\* price_tracker.update_tracking_data(), before the loop over the symbols.
AfterFeedTest == "track"

\* now = datetime.now(); prices = get_all_futures_prices(); if not prices: ...
Fetch ==
    /\ pc = "fetch"
    /\ now' = clock
    /\ \E p \in FeedResults :
          /\ prices' = p
          /\ pc' = IF SkipTick(p) THEN "sleep" ELSE AfterFeedTest
    /\ alerts' = <<>>
    /\ send_failed' = <<>>
    /\ saved' = <<>>
    /\ save_failed' = <<>>
    /\ UNCHANGED <<clock, state, history, tracking_sessions, idx,
                   percentage_change, tracker_prices, tracker_now, call, last_alert,
                   save_calls, stop_requested>>

\* price_tracker.update_tracking_data(), up to its loop: the early returns,
\* its own feed request and its own clock reading.
TrackerEnter ==
    /\ pc = "track"
    /\ \E p \in FeedResults, d \in 0..MaxJitter :
          IF tracking_sessions = <<>> \/ p = EmptyFeed
          THEN /\ d = 0
               /\ pc' = "update"
               /\ UNCHANGED <<clock, tracker_prices, tracker_now>>
          ELSE /\ clock + d <= MaxTime
               /\ clock' = clock + d
               /\ tracker_prices' = p
               /\ tracker_now' = clock + d
               /\ pc' = "track_loop"
    /\ idx' = 1
    /\ UNCHANGED <<state, history, tracking_sessions, now, prices,
                   percentage_change, alerts, saved, call, last_alert, save_calls,
                   send_failed, save_failed, stop_requested>>

\* update_tracking_data: the loop over the sessions and the removal of the
\* completed ones; its locals are gone when it returns.
TrackerLoop ==
    /\ pc = "track_loop"
    /\ \E acc \in {TrackerPass(tracking_sessions, <<>>, tracker_now, tracker_prices)} :
       \E fails \in WriteFailures(acc.saved) :
           /\ tracking_sessions' = acc.ts
           /\ saved' = saved \o WrittenFiles(acc.saved, fails)
           /\ save_failed' = save_failed \o FailedIds(acc.saved, fails)
           /\ save_calls' = save_calls \o HandedIds(tracking_sessions, acc.completed)
           /\ pc' = IF acc.raised \/ WriteRaises(fails) THEN "crashed" ELSE "update"
    /\ tracker_prices' = EmptyFeed
    /\ tracker_now' = 0
    /\ UNCHANGED <<clock, state, history, now, prices, idx, percentage_change,
                   alerts, call, last_alert, send_failed, stop_requested>>

\* The next position of `for symbol, config in state.items()`, or the sleep
\* that ends the iteration.
NextSymbol ==
    IF idx < Len(SymOrder)
    THEN pc' = "update" /\ idx' = idx + 1
    ELSE pc' = "sleep" /\ idx' = 1

\* `break` where the loop has `continue`: the iteration ends here.
SkipBreak == pc' = "sleep" /\ idx' = 1

\* continue (a disabled symbol, a symbol without a price)
SkipSymbol == NextSymbol

\* The pruning with > for >=.
PruneStrict(h, cutoff) == SelectSeq(h, LAMBDA e : e[1] > cutoff)

\* The pruning left out.
PruneNothing(h, cutoff) == h

\* [(t, p) for t, p in history[symbol] if t >= cutoff]
Prune(h, cutoff) == SelectSeq(h, LAMBDA e : e[1] >= cutoff)

\* history[symbol].append((now, price)), then the pruning at now - window
WindowUpdate(h, t, price, window) == Prune(Append(h, <<t, price>>), t - window)

\* Every configured symbol taken as enabled.
IsEnabledAlways(config) == TRUE

\* config.get("enabled", True); the configurations of the model all carry the key
IsEnabled(config) == config.enabled

\* The head of the loop body for one symbol: the enabled flag, the missing
\* price, the append and the pruning, the empty-window test.
UpdateWindow ==
    /\ pc = "update"
    /\ LET symbol == SymOrder[idx]
           config == state[symbol]
       IN  IF ~IsEnabled(config) \/ symbol \notin DOMAIN prices
           THEN /\ SkipSymbol
                /\ UNCHANGED <<history, last_alert>>
           ELSE LET h == WindowUpdate(history[symbol], now, prices[symbol],
                                      config.window_minutes)
                IN  /\ history' = [history EXCEPT ![symbol] = h]
                    /\ last_alert' = [last_alert EXCEPT ![symbol] =
                           IF @ = <<>> THEN @
                           ELSE [@ EXCEPT !.steady = @ /\ prices[symbol] = last_alert[symbol].price]]
                    /\ IF h = <<>> THEN NextSymbol
                       ELSE pc' = "change" /\ idx' = idx
    /\ UNCHANGED <<clock, state, tracking_sessions, now, prices,
                   percentage_change, alerts, saved, tracker_prices,
                   tracker_now, call, save_calls, send_failed, save_failed,
                   stop_requested>>

\* oldest_time, oldest_price = history[symbol][0]
OldestPrice(h) == h[1][2]

\* percentage_change = ((price - oldest_price) / oldest_price) * 100, which
\* raises ZeroDivisionError for oldest_price = 0 and ends the loop.
ComputeChange ==
    /\ pc = "change"
    /\ LET symbol == SymOrder[idx]
           oldest_price == OldestPrice(history[symbol])
       IN  IF oldest_price = 0
           THEN /\ pc' = "crashed"
                /\ UNCHANGED percentage_change
           ELSE /\ pc' = "alert"
                /\ percentage_change' = PctChange(prices[symbol], oldest_price)
    /\ UNCHANGED <<clock, state, history, tracking_sessions, now, prices, idx,
                   alerts, saved, tracker_prices, tracker_now, call, last_alert,
                   save_calls, send_failed, save_failed, stop_requested>>

\* The rise test with > for >=.
RiseFiresStrict(config, pct) == config.alert_on_up /\ ~RatLeq(pct, config.threshold)

\* alert_up and percentage_change >= threshold
RiseFires(config, pct) == config.alert_on_up /\ RatGeq(pct, config.threshold)

\* The fall test as an `elif` of the rise test.
FallFiresElse(config, pct) ==
    config.alert_on_down /\ RatLeq(pct, -config.threshold) /\ ~RiseFires(config, pct)

\* The fall test on the size of the change, whatever its sign.
FallFiresEitherWay(config, pct) ==
    config.alert_on_down /\ RatGeq(RatAbs(pct), config.threshold)

\* alert_down and percentage_change <= -threshold
FallFires(config, pct) == config.alert_on_down /\ RatLeq(pct, -config.threshold)

\* The monitor's guard without its test: a tracking start on every alert.
MayStartAlways(ts, symbol) == TRUE

\* The monitor's guard always refusing: no alert starts a session.
MayStartNever(ts, symbol) == FALSE

\* if not price_tracker.is_tracking(symbol)
MayStart(ts, symbol) == ~IsTracking(ts, symbol)

\* The window emptied after an alert.
ResetWindowEmpty(h, t, price) == <<>>

\* The window left as it is after an alert.
ResetWindowNot(h, t, price) == h

\* history[symbol] = [(now, price)]
ResetWindow(h, t, price) == << <<t, price>> >>

\* What send_telegram_message is given (the percentage unrounded).
Message(symbol, kind, pct, window) ==
    [symbol |-> symbol, kind |-> kind, pct |-> pct, window |-> window]

\* A failed delivery raising out of send_telegram_message.
SendRaisesOnFailure(failed) == failed

\* except Exception as e: print(...) -- a failed request (requests.post or
\* raise_for_status raising) is caught inside send_telegram_message, which
\* returns None as after a delivery
SendRaises(failed) == FALSE

\* The rise block and then the fall block for one symbol.  A tracking start
\* reads the clock itself.  Each message handed to send_telegram_message is
\* delivered or not; an exception leaving it would end the loop.
FireAlerts ==
    /\ pc = "alert"
    /\ LET symbol == SymOrder[idx]
           config == state[symbol]
           price  == prices[symbol]
           pct    == percentage_change
           window == config.window_minutes
           up     == RiseFires(config, pct)
           down   == FallFires(config, pct)
           startUp   == up /\ MayStart(tracking_sessions, symbol)
       IN  \E d \in 0..MaxJitter, failedUp, failedDown \in BOOLEAN :
             LET t   == clock + d
                 ts1 == IF startUp
                        THEN StartTracking(tracking_sessions,
                                 NewSession(symbol, price, "up", pct, window, t))
                        ELSE tracking_sessions
                 startDown == down /\ MayStart(ts1, symbol)
                 ts2 == IF startDown
                        THEN StartTracking(ts1,
                                 NewSession(symbol, price, "down", RatAbs(pct), window, t))
                        ELSE ts1
             IN  /\ t <= MaxTime
                 /\ (startUp \/ startDown) \/ d = 0
                 /\ up \/ ~failedUp
                 /\ down \/ ~failedDown
                 /\ alerts' = alerts
                        \o (IF up THEN <<Message(symbol, "increased", pct, window)>>
                                  ELSE <<>>)
                        \o (IF down THEN <<Message(symbol, "decreased", RatAbs(pct), window)>>
                                    ELSE <<>>)
                 /\ send_failed' = send_failed
                        \o (IF up THEN <<failedUp>> ELSE <<>>)
                        \o (IF down THEN <<failedDown>> ELSE <<>>)
                 /\ IF (up /\ SendRaises(failedUp)) \/ (down /\ SendRaises(failedDown))
                    THEN /\ pc' = "crashed"
                         /\ UNCHANGED <<clock, tracking_sessions, history, last_alert, idx>>
                    ELSE /\ clock' = t
                         /\ tracking_sessions' = ts2
                         /\ history' = IF up \/ down
                                       THEN [history EXCEPT ![symbol] = ResetWindow(@, now, price)]
                                       ELSE history
                         /\ last_alert' = IF up \/ down
                                          THEN [last_alert EXCEPT ![symbol] =
                                                  [at |-> now, price |-> price, steady |-> TRUE]]
                                          ELSE last_alert
                         /\ NextSymbol
    /\ UNCHANGED <<state, now, prices, percentage_change, saved,
                   tracker_prices, tracker_now, call, save_calls, save_failed,
                   stop_requested>>

\* time.sleep(10), at the end of an iteration or after an empty feed result
Sleep ==
    /\ pc = "sleep"
    /\ clock + SleepUnits <= MaxTime
    /\ clock' = clock + SleepUnits
    /\ pc' = "fetch"
    /\ UNCHANGED <<state, history, tracking_sessions, now, prices, idx,
                   percentage_change, alerts, saved, tracker_prices,
                   tracker_now, call, last_alert, save_calls, send_failed,
                   save_failed, stop_requested>>

Next ==
    \/ Fetch
    \/ TrackerEnter
    \/ TrackerLoop
    \/ UpdateWindow
    \/ ComputeChange
    \/ FireAlerts
    \/ Sleep

Spec == Init /\ [][Next]_vars

----------------------------------------------------------------------------
(* The loop under configurations at the edges of what load_state() may     *)
(* return: a threshold that is negative, zero or positive, and a window of *)
(* length zero or two, for the first symbol; the second symbol disabled.   *)

EdgeThresholds == {-6, 0, 5}
EdgeWindows == {0, 2}

EdgeStates ==
    { [s \in Symbols |-> IF s = SymOrder[1] THEN Config(TRUE, th, w, TRUE, TRUE)
                                            ELSE Config(FALSE, 5, 2, TRUE, TRUE)] :
        th \in EdgeThresholds, w \in EdgeWindows }

EdgeInit ==
    /\ clock = 0
    /\ state \in EdgeStates
    /\ history = [s \in Symbols |-> <<>>]
    /\ tracking_sessions = <<>>
    /\ now = 0
    /\ prices = EmptyFeed
    /\ pc = "fetch"
    /\ idx = 1
    /\ percentage_change = NoChange
    /\ alerts = <<>>
    /\ saved = <<>>
    /\ tracker_prices = EmptyFeed
    /\ tracker_now = 0
    /\ call = [op |-> "none"]
    /\ last_alert = [s \in Symbols |-> <<>>]
    /\ save_calls = <<>>
    /\ send_failed = <<>>
    /\ save_failed = <<>>
    /\ stop_requested = FALSE

EdgeSpec == EdgeInit /\ [][Next]_vars

----------------------------------------------------------------------------
(* PriceTracker on its own: its public methods called directly, in any    *)
(* order, as any caller of the class may.                                  *)

\* Arguments a caller may pass for a symbol: any direction for the first
\* symbol, one fixed alert for the others.
DirectionsOf(symbol) == IF symbol = SymOrder[1] THEN {"up", "down"} ELSE {"up"}
TriggerValues == {<<6, 1>>}
Windows == {2}

TrackerInit == Init /\ state = FirstState

\* price_tracker.start_tracking(symbol, initial_price, threshold_type,
\* threshold_value, window_minutes), which reads the clock itself.
CallStartTracking ==
    /\ pc # "crashed"
    /\ \E symbol \in Symbols, d \in 0..MaxJitter :
       \E initial_price \in PricesOf(symbol), threshold_type \in DirectionsOf(symbol),
          threshold_value \in TriggerValues, window_minutes \in Windows :
          /\ clock + d <= MaxTime
          /\ clock' = clock + d
          /\ tracking_sessions' =
                StartTracking(tracking_sessions,
                    NewSession(symbol, initial_price, threshold_type,
                               threshold_value, window_minutes, clock + d))
          /\ call' = [op |-> "start_tracking", symbol |-> symbol,
                      initial_price |-> initial_price,
                      threshold_type |-> threshold_type,
                      threshold_value |-> threshold_value,
                      window_minutes |-> window_minutes,
                      was_tracking |-> IsTracking(tracking_sessions, symbol)]
    /\ UNCHANGED <<state, history, now, prices, pc, idx, percentage_change,
                   alerts, saved, tracker_prices, tracker_now, last_alert,
                   save_calls, send_failed, save_failed, stop_requested>>

\* price_tracker.update_tracking_data(), one loop interval after the last call.
CallUpdateTrackingData ==
    /\ pc # "crashed"
    /\ \E p \in FeedResults, d \in 0..MaxJitter :
          /\ clock + SleepUnits + d <= MaxTime
          /\ clock' = clock + SleepUnits + d
          /\ call' = [op |-> "update_tracking_data"]
          /\ IF tracking_sessions = <<>> \/ p = EmptyFeed
             THEN UNCHANGED <<tracking_sessions, saved, pc, save_calls, save_failed>>
             ELSE \E acc \in {TrackerPass(tracking_sessions, <<>>, clock', p)} :
                  \E fails \in WriteFailures(acc.saved) :
                      /\ tracking_sessions' = acc.ts
                      /\ saved' = WrittenFiles(acc.saved, fails)
                      /\ save_failed' = FailedIds(acc.saved, fails)
                      /\ save_calls' = save_calls
                                        \o HandedIds(tracking_sessions, acc.completed)
                      /\ pc' = IF acc.raised \/ WriteRaises(fails) THEN "crashed" ELSE pc
    /\ UNCHANGED <<state, history, now, prices, idx, percentage_change,
                   alerts, tracker_prices, tracker_now, last_alert, send_failed,
                   stop_requested>>

TrackerNext ==
    \/ CallStartTracking
    \/ CallUpdateTrackingData

TrackerSpec == TrackerInit /\ [][TrackerNext]_vars

----------------------------------------------------------------------------
(* The finalization of a session, for sessions with any recorded prices:   *)
(* update_tracking_data called on a tracker that holds one session which   *)
(* has been sampled once per interval and whose end_time is one interval   *)
(* after its last sample.                                                  *)

\* Prices a session may have recorded: a negative one, zero, and positive ones.
SavePrices == {-100, 0, 100, 105, 110}

SampleSeqs == UNION {[1..n -> SavePrices] : n \in 1..MaxSamples}

\* The session start_tracking made at time 0 with price ps[1], after the
\* tracker appended ps[2], ... at times 1, ...
SessionWith(ps) ==
    [NewSession(SymOrder[1], ps[1], "up", <<6, 1>>, 2, 0) EXCEPT
        !.end_time   = IsoFormat(Len(ps)),
        !.price_data = [i \in 1..Len(ps) |-> <<IsoFormat(i - 1), ps[i]>>]]

SaveInit ==
    /\ \E ps \in SampleSeqs :
          /\ tracking_sessions = <<SessionWith(ps)>>
          /\ clock = Len(ps) - 1
    /\ state = FirstState
    /\ history = [s \in Symbols |-> <<>>]
    /\ now = 0
    /\ prices = EmptyFeed
    /\ pc = "fetch"
    /\ idx = 1
    /\ percentage_change = NoChange
    /\ alerts = <<>>
    /\ saved = <<>>
    /\ tracker_prices = EmptyFeed
    /\ tracker_now = 0
    /\ call = [op |-> "none"]
    /\ last_alert = [s \in Symbols |-> <<>>]
    /\ save_calls = <<>>
    /\ send_failed = <<>>
    /\ save_failed = <<>>
    /\ stop_requested = FALSE

SaveNext == CallUpdateTrackingData

SaveSpec == SaveInit /\ [][SaveNext]_vars

----------------------------------------------------------------------------
(* The loop running forever.  The program reads timestamps only to compare *)
(* them with each other (now - window, now >= end_time), so its behaviour  *)
(* is the same when every timestamp is moved back by the same amount.      *)
(* When the clock would pass MaxTime, the sleep moves all of them back     *)
(* instead; a timestamp that would become negative is kept at 0, which is  *)
(* older than every cutoff (MaxTime - window > 0) and not later than any   *)
(* clock reading, so no comparison the program makes changes.              *)

ShiftTime(t, k) == IF t - k < 0 THEN 0 ELSE t - k
ShiftIso(s, k) == IsoFormat(ShiftTime(FromIsoFormat(s), k))

ShiftHistory(h, k) == [i \in 1..Len(h) |-> <<ShiftTime(h[i][1], k), h[i][2]>>]

ShiftSession(info, k) ==
    [info EXCEPT !.start_time = ShiftIso(@, k),
                 !.end_time   = ShiftIso(@, k),
                 !.price_data = [i \in 1..Len(@) |-> <<ShiftIso(@[i][1], k), @[i][2]>>],
                 !.session_id = SessionId(info.symbol, ShiftTime(@[3], k))]

\* The log of the save calls moved back; calls for sessions started before
\* the new origin of the clock leave the log.
ShiftIds(ids, k) ==
    LET kept == SelectSeq(ids, LAMBDA id : id[3] >= k)
    IN  [i \in 1..Len(kept) |-> SessionId(kept[i][1], kept[i][3] - k)]

\* time.sleep(10) with an unbounded clock
LiveSleep ==
    /\ pc = "sleep"
    /\ pc' = "fetch"
    /\ IF clock + SleepUnits <= MaxTime
       THEN /\ clock' = clock + SleepUnits
            /\ UNCHANGED <<history, tracking_sessions, now, last_alert, save_calls>>
       ELSE LET k == clock + SleepUnits - MaxTime IN
            /\ clock' = MaxTime
            /\ now' = ShiftTime(now, k)
            /\ history' = [s \in Symbols |-> ShiftHistory(history[s], k)]
            /\ tracking_sessions' =
                  [i \in 1..Len(tracking_sessions) |-> ShiftSession(tracking_sessions[i], k)]
            /\ last_alert' = [s \in Symbols |->
                  IF last_alert[s] = <<>> THEN <<>>
                  ELSE [last_alert[s] EXCEPT !.at = ShiftTime(@, k)]]
            /\ save_calls' = ShiftIds(save_calls, k)
    /\ UNCHANGED <<state, prices, idx, percentage_change, alerts, saved,
                   tracker_prices, tracker_now, call, send_failed, save_failed,
                   stop_requested>>

\* One configuration: the first symbol enabled, the second disabled.
LiveInit == Init /\ ~state[SymOrder[2]].enabled

LiveNext ==
    \/ Fetch
    \/ TrackerEnter
    \/ TrackerLoop
    \/ UpdateWindow
    \/ ComputeChange
    \/ FireAlerts
    \/ LiveSleep

\* A single thread runs the loop: while it has a next step (it has not been
\* ended by an exception) it takes it, and time.sleep returns.
LiveSpec == LiveInit /\ [][LiveNext]_vars /\ WF_vars(LiveNext)

----------------------------------------------------------------------------
(* The loop while a stop is asked for from outside.  start_monitoring takes *)
(* no stop argument, installs no signal handler and loops on `while True`:  *)
(* no statement of the loop reads the request.                              *)

RequestStop ==
    /\ ~stop_requested
    /\ pc # "crashed"
    /\ stop_requested' = TRUE
    /\ UNCHANGED <<clock, state, history, tracking_sessions, now, prices, pc, idx,
                   percentage_change, alerts, saved, tracker_prices, tracker_now,
                   call, last_alert, save_calls, send_failed, save_failed>>

StopInit == Init /\ ~state[SymOrder[2]].enabled

StopNext ==
    \/ Fetch
    \/ TrackerEnter
    \/ TrackerLoop
    \/ UpdateWindow
    \/ ComputeChange
    \/ FireAlerts
    \/ Sleep
    \/ RequestStop

StopSpec == StopInit /\ [][StopNext]_vars

----------------------------------------------------------------------------
(* Properties *)

AtMostOneSession(ts) ==
    \A i, j \in 1..Len(ts) : ts[i].symbol = ts[j].symbol => i = j

AlertedSymbols == {alerts[i].symbol : i \in 1..Len(alerts)}

\* C1: every instrument has at most one active tracking session, and an
\* alert that fires for an instrument that already has one leaves every
\* session (fields and samples) exactly as it was: nothing is created,
\* replaced, queued or merged.
C1_OneSessionAlertKeepsIt ==
    [][ /\ AtMostOneSession(tracking_sessions')
        /\ (pc = "alert" /\ alerts' # alerts
              /\ IsTracking(tracking_sessions, SymOrder[idx]))
           => tracking_sessions' = tracking_sessions ]_vars

\* An alert has fired in this iteration for a symbol whose session was
\* started in an earlier iteration.
C1_Witness ==
    \E s \in AlertedSymbols :
        /\ IsTracking(tracking_sessions, s)
        /\ FromIsoFormat(SessionOf(tracking_sessions, s).start_time) < now

Last(h) == h[Len(h)]
CurrentSymbol == SymOrder[idx]
NewAlerts == SubSeq(alerts', Len(alerts) + 1, Len(alerts'))
Updated(symbol) == state[symbol].enabled /\ symbol \in DOMAIN prices

\* C3: right after a symbol's window is updated at `now` (append, then
\* prune), no retained sample is older than now - window.
C3_NoSampleOlderThanWindow ==
    [][ (pc = "update" /\ Updated(CurrentSymbol)) =>
          \A i \in 1..Len(history'[CurrentSymbol]) :
             history'[CurrentSymbol][i][1] >= now - state[CurrentSymbol].window_minutes
      ]_vars

\* A window just updated that still holds a sample exactly one window old,
\* in an iteration later than the window length (older samples had existed).
C3_Witness ==
    /\ pc = "change"
    /\ Len(history[CurrentSymbol]) >= 2
    /\ history[CurrentSymbol][1][1] = now - state[CurrentSymbol].window_minutes
    /\ history[CurrentSymbol][1][1] > 0

\* C4: once an alert has fired for a symbol in an iteration, the symbol's
\* window holds exactly one sample, (now, triggering price), to the end of
\* that iteration, whether or not the alert started a tracking session.
C4_WindowResetAfterAlert ==
    \A s \in AlertedSymbols : history[s] = << <<now, prices[s]>> >>

\* The end of an iteration in which an alert fired for a symbol that was
\* already tracked (so no session was started), and of one in which the
\* alert started the session.
C4_Witness ==
    /\ pc = "sleep"
    /\ \E s \in AlertedSymbols :
          /\ IsTracking(tracking_sessions, s)
          /\ FromIsoFormat(SessionOf(tracking_sessions, s).start_time) < now
          /\ history[s] = << <<now, prices[s]>> >>
    /\ \E s \in AlertedSymbols :
          /\ IsTracking(tracking_sessions, s)
          /\ FromIsoFormat(SessionOf(tracking_sessions, s).start_time) >= now

\* C5: with threshold > 0, after an alert at price p the symbol's later
\* evaluations take p as baseline while that sample is inside the window; an
\* alert fires only when the price differs from the oldest surviving sample
\* by at least threshold percent; and while every later price equals p no
\* alert fires again.
C5_NoRefireOnSustainedMove ==
    [][ LET s == CurrentSymbol
            la == last_alert[s]
            oldest == history[s][1]
        IN  /\ (pc = "change" /\ la # <<>> /\ la.at >= now - state[s].window_minutes)
               => oldest = <<la.at, la.price>>
            /\ (pc = "alert" /\ state[s].threshold > 0 /\ alerts' # alerts)
               => Abs(prices[s] - oldest[2]) * 100 >= state[s].threshold * Abs(oldest[2])
            /\ (pc = "alert" /\ state[s].threshold > 0 /\ la # <<>> /\ la.steady)
               => alerts' = alerts
      ]_vars

\* A symbol with a positive threshold is evaluated, without an alert, in an
\* iteration after its alert, at the alert's price, with the alert's sample
\* as the baseline.
C5_Witness ==
    /\ pc = "alert"
    /\ state[CurrentSymbol].threshold > 0
    /\ last_alert[CurrentSymbol] # <<>>
    /\ last_alert[CurrentSymbol].steady
    /\ last_alert[CurrentSymbol].at < now
    /\ last_alert[CurrentSymbol].price = 106
    /\ history[CurrentSymbol][1] = <<last_alert[CurrentSymbol].at, 106>>

\* C6: in every evaluation a rise alert is sent iff alert_on_up and the
\* change is >= threshold, a fall alert iff alert_on_down and the change is
\* <= -threshold, and nothing else is sent; with threshold 5 and prices 100
\* then 106 in the window, the rise alert carries 6 percent when alert_on_up
\* is set and no rise alert is sent when it is not.
C6_AlertIffThresholdCrossed ==
    [][ LET s == CurrentSymbol
            c == state[s]
            oldest == history[s][1][2]
            delta == (prices[s] - oldest) * 100
            rise == \E i \in 1..Len(NewAlerts) :
                       NewAlerts[i].symbol = s /\ NewAlerts[i].kind = "increased"
            fall == \E i \in 1..Len(NewAlerts) :
                       NewAlerts[i].symbol = s /\ NewAlerts[i].kind = "decreased"
        IN  IF pc = "alert"
            THEN /\ oldest > 0
                 /\ rise <=> (c.alert_on_up /\ delta >= c.threshold * oldest)
                 /\ fall <=> (c.alert_on_down /\ delta <= (-c.threshold) * oldest)
                 /\ Len(NewAlerts) = (IF rise THEN 1 ELSE 0) + (IF fall THEN 1 ELSE 0)
                 /\ (c.threshold = 5 /\ oldest = 100 /\ prices[s] = 106) =>
                       IF c.alert_on_up
                       THEN NewAlerts = <<Message(s, "increased", <<6, 1>>, c.window_minutes)>>
                       ELSE NewAlerts = <<>>
            ELSE alerts' = alerts \/ (pc = "fetch" /\ alerts' = <<>>)
      ]_vars

\* A rise alert of exactly 6 percent under threshold 5 has been sent.
C6_Witness ==
    \E i \in 1..Len(alerts) :
       /\ alerts[i].kind = "increased"
       /\ alerts[i].pct = <<6, 1>>
       /\ state[alerts[i].symbol].threshold = 5

\* The same move, 100 then 106 under threshold 5, evaluated with alert_on_up
\* off: the iteration ends with both samples in the window and nothing sent.
C6_FlagOffCase ==
    /\ pc = "sleep"
    /\ ~state[SymOrder[1]].alert_on_up
    /\ state[SymOrder[1]].threshold = 5
    /\ history[SymOrder[1]] = << <<now - 1, 100>>, <<now, 106>> >>
    /\ alerts = <<>>

\* C7 as stated: every evaluation yields the percentage change
\* (newest - oldest) / oldest * 100 of the updated window, and 0 when the
\* window holds exactly one sample.
C7_ChangeOfNewestOverOldest ==
    [][ pc = "change" =>
          LET h == history[CurrentSymbol]
              r == percentage_change'
          IN  /\ pc' = "alert"
              /\ Last(h) = <<now, prices[CurrentSymbol]>>
              /\ r[2] > 0
              /\ r[1] * h[1][2] = (Last(h)[2] - h[1][2]) * 100 * r[2]
              /\ Len(h) = 1 => r[1] = 0
      ]_vars

\* C8: an iteration whose feed result is empty changes no window and no
\* session, sends nothing and saves nothing; it only sleeps.
C8_EmptyFeedIsNoOp ==
    [][ /\ (pc = "fetch" /\ prices' = EmptyFeed)
           => /\ pc' = "sleep"
              /\ UNCHANGED <<history, tracking_sessions>>
              /\ alerts' = <<>> /\ saved' = <<>>
        /\ (pc = "sleep" /\ prices = EmptyFeed)
           => /\ pc' = "fetch"
              /\ UNCHANGED <<history, tracking_sessions, alerts, saved>>
      ]_vars

\* The end of an iteration with an empty feed result while a session that
\* is past its end_time is active and a window holds samples.
C8_Witness ==
    /\ pc = "sleep"
    /\ prices = EmptyFeed
    /\ \E i \in 1..Len(tracking_sessions) :
          now >= FromIsoFormat(tracking_sessions[i].end_time)
    /\ \E s \in Symbols : Len(history[s]) >= 2

\* C9: an enabled symbol missing from a non-empty feed result is skipped
\* (its window, the sessions and the alerts stay as they are) and the loop
\* goes on with the next symbol; a symbol that has a price is updated and
\* goes on to its evaluation; at the end of the iteration every enabled
\* symbol that has a price holds the sample (now, price) as its newest, and
\* nothing was sent for a symbol without a price.
C9_MissingPriceSkipsOnlyThatSymbol ==
    [][ /\ (pc = "update" /\ state[CurrentSymbol].enabled
              /\ CurrentSymbol \notin DOMAIN prices)
           => /\ UNCHANGED <<history, tracking_sessions, alerts>>
              /\ pc' \in {"update", "sleep"}
              /\ pc' = "update" => idx' = idx + 1
        /\ (pc = "update" /\ Updated(CurrentSymbol))
           => /\ pc' = "change" /\ idx' = idx
              /\ Last(history'[CurrentSymbol]) = <<now, prices[CurrentSymbol]>>
        /\ (pc # "sleep" /\ pc' = "sleep" /\ prices' # EmptyFeed)
           => \A s \in Symbols :
                 /\ (state[s].enabled /\ s \in DOMAIN prices')
                    => (history'[s] # <<>> /\ Last(history'[s]) = <<now', prices'[s]>>)
                 /\ s \notin DOMAIN prices' => s \notin AlertedSymbols'
      ]_vars

\* The end of an iteration in which the first symbol had no price and kept
\* a window older than its window length, while the second was updated.
C9_Witness ==
    /\ pc = "sleep"
    /\ state[SymOrder[1]].enabled /\ state[SymOrder[2]].enabled
    /\ SymOrder[1] \notin DOMAIN prices
    /\ history[SymOrder[1]] # <<>>
    /\ history[SymOrder[1]][1][1] < now - state[SymOrder[1]].window_minutes
    /\ SymOrder[2] \in DOMAIN prices
    /\ Last(history[SymOrder[2]]) = <<now, prices[SymOrder[2]]>>

\* C10 as stated, for every call of update_tracking_data that returns: a
\* session whose end_time has come is saved (its file written, unless the
\* write itself failed) and removed in that call; any
\* other session gets exactly one sample (now, price) if the feed result has
\* its symbol and is unchanged otherwise.
C10_TrackerTick ==
    [][ /\ (pc = "track" /\ pc' = "update")
           => \A i \in 1..Len(tracking_sessions) :
                 /\ now < FromIsoFormat(tracking_sessions[i].end_time)
                 /\ tracking_sessions'[i] = tracking_sessions[i]
        /\ (pc = "track_loop" /\ pc' = "update")
           => \A i \in 1..Len(tracking_sessions) :
                 LET info == tracking_sessions[i] IN
                 IF tracker_now >= FromIsoFormat(info.end_time)
                 THEN /\ ~IsTracking(tracking_sessions', info.symbol)
                      /\ \/ \E k \in 1..Len(saved') : saved'[k].session_id = info.session_id
                         \/ info.session_id \in SeqToSet(save_failed')
                 ELSE /\ IsTracking(tracking_sessions', info.symbol)
                      /\ SessionOf(tracking_sessions', info.symbol) =
                            IF info.symbol \in DOMAIN tracker_prices
                            THEN [info EXCEPT !.price_data =
                                     Append(@, <<IsoFormat(tracker_now),
                                                 tracker_prices[info.symbol]>>)]
                            ELSE info
      ]_vars

\* A session of the symbol is active and its end_time has passed.
Overdue(s) ==
    /\ IsTracking(tracking_sessions, s)
    /\ clock >= FromIsoFormat(SessionOf(tracking_sessions, s).end_time)

\* C11 as stated: if the loop keeps ticking and the feed result of the tick
\* is non-empty infinitely often, no session stays active forever after its
\* end_time has passed.
C11_EverySessionFinalized ==
    ([]<>(pc = "track")) => \A s \in Symbols : (Overdue(s) ~> ~Overdue(s))

\* The same conclusion when it is the tracker's own feed request that is
\* answered infinitely often.
C11_WhenTrackerFeedAnswers ==
    ([]<>(pc = "track_loop")) => \A s \in Symbols : (Overdue(s) ~> ~Overdue(s))

ActiveIds(ts) == {ts[i].session_id : i \in 1..Len(ts)}
NewSaveCalls == SubSeq(save_calls', Len(save_calls) + 1, Len(save_calls'))
NoDuplicates(q) == \A i, j \in 1..Len(q) : q[i] = q[j] => i = j

\* C12: over a run no session is handed to the save step twice; a session is
\* handed to it only in a tracker pass that finds it at or past its end_time;
\* a session leaves the active set only in the step that hands it over; and
\* while the loop runs no session that was handed over is active.
C12_SavedExactlyOnce ==
    [][ /\ NoDuplicates(save_calls')
        /\ \A id \in SeqToSet(NewSaveCalls) :
              /\ pc = "track_loop"
              /\ \E i \in 1..Len(tracking_sessions) :
                    /\ tracking_sessions[i].session_id = id
                    /\ tracker_now >= FromIsoFormat(tracking_sessions[i].end_time)
        /\ \A id \in ActiveIds(tracking_sessions) \ ActiveIds(tracking_sessions') :
              id \in SeqToSet(NewSaveCalls)
        /\ pc' # "crashed" =>
              ActiveIds(tracking_sessions') \cap SeqToSet(save_calls') = {}
      ]_vars

\* A session was saved and removed, its symbol got a new session afterwards,
\* and a later tracker pass has added a sample to the new one.
C12_Witness ==
    /\ pc = "sleep"
    /\ \E i \in 1..Len(save_calls) :
          /\ IsTracking(tracking_sessions, save_calls[i][1])
          /\ Len(SessionOf(tracking_sessions, save_calls[i][1]).price_data) >= 2

\* C13: every session has end_time = start_time + the tracking duration,
\* whatever the window of the alert that created it; the window is recorded
\* as configured; and a tracker pass removes a session exactly when its own
\* clock reading is at or past start_time + the tracking duration.
C13_EndTimeOneHourAfterStart ==
    [][ /\ \A i \in 1..Len(tracking_sessions') :
              LET info == tracking_sessions'[i] IN
              /\ FromIsoFormat(info.end_time)
                    = FromIsoFormat(info.start_time) + TrackingDuration
              /\ info.window_minutes = state[info.symbol].window_minutes
        /\ (pc = "track_loop" /\ pc' = "update") =>
              \A i \in 1..Len(tracking_sessions) :
                 LET info == tracking_sessions[i] IN
                 (info.session_id \notin ActiveIds(tracking_sessions'))
                    <=> (tracker_now >= FromIsoFormat(info.start_time) + TrackingDuration)
      ]_vars

\* A tracker pass has just saved a session whose alert window is shorter
\* than the tracking duration, at start_time + the tracking duration or
\* later, while a session with another window is active.
C13_Witness ==
    /\ pc = "update"
    /\ \E i \in 1..Len(saved), j \in 1..Len(tracking_sessions) :
          /\ saved[i].window_minutes < TrackingDuration
          /\ tracking_sessions[j].window_minutes # saved[i].window_minutes
          /\ Len(saved[i].price_data) >= 2
          /\ FromIsoFormat(Last(saved[i].price_data)[1])
                >= FromIsoFormat(saved[i].start_time) + saved[i].window_minutes

\* C14: when an evaluation sends an alert for a symbol that has no active
\* session, exactly one session is added in that step and nothing else
\* changes in the active set: its initial_price is the triggering price, its
\* direction and trigger value are those of the first alert sent, its window
\* is the configured one, its only sample is (start_time, initial_price) and
\* it runs from the clock reading of the start; it is still so at the end of
\* the iteration.
C14_AlertStartsOneSession ==
    [][ /\ (pc = "alert" /\ NewAlerts # <<>>
              /\ ~IsTracking(tracking_sessions, CurrentSymbol)) =>
              LET s == CurrentSymbol
                  first == NewAlerts[1]
                  oldest == history[s][1][2]
                  new == tracking_sessions'[Len(tracking_sessions')]
                  r == new.threshold_value
              IN  /\ Len(tracking_sessions') = Len(tracking_sessions) + 1
                  /\ SubSeq(tracking_sessions', 1, Len(tracking_sessions)) = tracking_sessions
                  /\ new.symbol = s
                  /\ new.initial_price = prices[s]
                  /\ new.threshold_type = (IF first.kind = "increased" THEN "up" ELSE "down")
                  /\ r = first.pct
                  /\ r[2] > 0
                  /\ r[1] * oldest = (IF first.kind = "increased"
                                      THEN (prices[s] - oldest) * 100 * r[2]
                                      ELSE Abs(prices[s] - oldest) * 100 * r[2])
                  /\ new.window_minutes = state[s].window_minutes
                  /\ new.start_time = IsoFormat(clock')
                  /\ new.price_data = << <<new.start_time, prices[s]>> >>
                  /\ new.session_id = SessionId(s, clock')
        /\ (pc # "sleep" /\ pc' = "sleep") =>
              \A s \in AlertedSymbols' :
                 /\ IsTracking(tracking_sessions', s)
                 /\ LET info == SessionOf(tracking_sessions', s) IN
                    FromIsoFormat(info.start_time) >= now' =>
                       /\ info.price_data = << <<info.start_time, prices'[s]>> >>
                       /\ Cardinality({i \in 1..Len(tracking_sessions') :
                                         tracking_sessions'[i].symbol = s}) = 1
      ]_vars

\* The end of an iteration in which a fall alert of a non-zero percentage
\* started a session for a symbol whose earlier session had been saved.
C14_Witness ==
    /\ pc = "sleep"
    /\ \E i \in 1..Len(alerts), j \in 1..Len(tracking_sessions) :
          /\ alerts[i].kind = "decreased"
          /\ alerts[i].pct[1] > 0
          /\ tracking_sessions[j].symbol = alerts[i].symbol
          /\ tracking_sessions[j].threshold_type = "down"
          /\ tracking_sessions[j].threshold_value = alerts[i].pct
          /\ FromIsoFormat(tracking_sessions[j].start_time) >= now
          /\ \E k \in 1..Len(save_calls) : save_calls[k][1] = alerts[i].symbol

\* C15 as stated: the tracker uses the feed result of the iteration, so a
\* price a tracker pass appends to a session is the price the detector has
\* for that symbol in the same iteration.
C15_TrackerSeesDetectorPrice ==
    [][ pc = "track_loop" =>
          /\ tracker_prices = prices
          /\ \A i \in 1..Len(tracking_sessions) :
                LET info == tracking_sessions[i] IN
                (/\ IsTracking(tracking_sessions', info.symbol)
                 /\ Len(SessionOf(tracking_sessions', info.symbol).price_data)
                       > Len(info.price_data))
                => /\ info.symbol \in DOMAIN prices
                   /\ Last(SessionOf(tracking_sessions', info.symbol).price_data)[2]
                         = prices[info.symbol]
      ]_vars

\* C16 as stated: whatever the feed reports, the loop is never ended by an
\* error.
C16_LoopNeverCrashes == pc # "crashed"

\* The sessions a step hands to the save step, as they were before it.
HandedSessions ==
    {tracking_sessions[i] : i \in {j \in 1..Len(tracking_sessions) :
        tracking_sessions[j].session_id \in SeqToSet(NewSaveCalls)}}

\* The record a step wrote for the session, if it wrote one.
WrittenFor(info) ==
    {saved'[k] : k \in {j \in 1..Len(saved') : saved'[j].session_id = info.session_id}}

\* The step wrote the session's file, as the record w, unless the write
\* itself failed.
WroteUnlessFailed(info, w) ==
    IF info.session_id \in SeqToSet(save_failed')
    THEN WrittenFor(info) = {}
    ELSE WrittenFor(info) = {w}

\* C17 as stated: a session handed to the save step with only its initial
\* sample is written exactly as it is, without an analytics or a summary
\* field, no error is raised, and the session is no longer active after the
\* pass.
C17_OneSampleSessionSavedBare ==
    [][ \A info \in HandedSessions :
          Len(info.price_data) = 1 =>
             /\ WroteUnlessFailed(info, info)
             /\ DOMAIN info = {"symbol", "start_time", "end_time", "initial_price",
                               "threshold_type", "threshold_value", "window_minutes",
                               "price_data", "session_id"}
             /\ pc' # "crashed"
             /\ ~IsTracking(tracking_sessions', info.symbol)
      ]_vars

\* What holds of it in every pass: the one-sample session is written as it
\* is, and it is removed if the pass returns.
C17_SavedBareRemovedIfPassReturns ==
    [][ \A info \in HandedSessions :
          Len(info.price_data) = 1 =>
             /\ WroteUnlessFailed(info, info)
             /\ pc' # "crashed" => ~IsTracking(tracking_sessions', info.symbol)
      ]_vars

\* r is the percentage (x - p0) / p0 * 100.
IsPctOf(r, x, p0) == r[2] > 0 /\ r[1] * p0 = (x - p0) * 100 * r[2]

\* The step has written the session with the analytics of C18: the changes
\* of the last, the highest and the lowest recorded price against the
\* initial one, and the steps counted by comparing consecutive prices.
AnalyticsAsClaimed(info) ==
    LET ps == SamplePrices(info.price_data)
        p0 == ps[1]
        pn == ps[Len(ps)]
        S  == SeqToSet(ps)
        up   == {i \in 2..Len(ps) : ps[i] > ps[i - 1]}
        down == {i \in 2..Len(ps) : ps[i] < ps[i - 1]}
        flat == {i \in 2..Len(ps) : ps[i] = ps[i - 1]}
    IN  /\ pc' # "crashed"
        /\ info.session_id \notin SeqToSet(save_failed') => WrittenFor(info) # {}
        /\ \A w \in WrittenFor(info) :
              LET a == w.analytics IN
              /\ IsPctOf(a.final_change_percent, pn, p0)
              /\ \E mx \in S : (\A y \in S : y <= mx) /\ IsPctOf(a.max_change_percent, mx, p0)
              /\ \E mn \in S : (\A y \in S : mn <= y) /\ IsPctOf(a.min_change_percent, mn, p0)
              /\ a.positive_moves = Cardinality(up)
              /\ a.negative_moves = Cardinality(down)
              /\ a.neutral_moves = Cardinality(flat)
              /\ ps = <<100, 110, 105>> =>
                    /\ a.final_change_percent = <<5, 1>>
                    /\ a.max_change_percent = <<10, 1>>
                    /\ a.min_change_percent = <<0, 1>>
                    /\ a.positive_moves = 1
                    /\ a.negative_moves = 1

\* C18 as stated: every session handed to the save step with recorded prices
\* p_0, p_1..p_n (n >= 1) is written with these analytics.
C18_AnalyticsOfRecordedPrices ==
    [][ \A info \in HandedSessions :
          Len(info.price_data) >= 2 => AnalyticsAsClaimed(info) ]_vars

\* The same for the sessions all of whose recorded prices are positive.
C18_ForPositivePrices ==
    [][ \A info \in HandedSessions :
          (/\ Len(info.price_data) >= 2
           /\ \A i \in 1..Len(info.price_data) : info.price_data[i][2] > 0)
          => AnalyticsAsClaimed(info) ]_vars

\* The session with prices 100, 110, 105 has been written.
C18_ExampleWritten ==
    \E k \in 1..Len(saved) : SamplePrices(saved[k].price_data) = <<100, 110, 105>>

\* The records written with analytics.
WithAnalytics == {saved[k] : k \in {j \in 1..Len(saved) : "analytics" \in DOMAIN saved[j]}}

\* C19 as stated: the trend label of a session written with analytics is
\* bullish exactly when its last recorded price is above the initial price,
\* bearish exactly when it is below, neutral exactly when they are equal.
C19_TrendByLastPrice ==
    \A w \in WithAnalytics :
       LET p0 == w.initial_price
           pn == Last(w.price_data)[2]
           trend == w.analytics.trend_direction
       IN  /\ trend = "bullish" <=> pn > p0
           /\ trend = "bearish" <=> pn < p0
           /\ trend = "neutral" <=> pn = p0

\* C19, amended: the label follows the sign of final_change, the change of
\* the last recorded price against the initial price in percent of the
\* initial price.  For a positive initial price that is bullish for a last
\* price above it and bearish for one below; for a negative initial price
\* the two are exchanged; neutral exactly when the two prices are equal.
C19_TrendBySignOfFinalChange ==
    \A w \in WithAnalytics :
       LET p0 == w.initial_price
           pn == Last(w.price_data)[2]
           r  == w.analytics.final_change_percent
           trend == w.analytics.trend_direction
       IN  /\ p0 # 0
           /\ IsPctOf(r, pn, p0)
           /\ trend = "bullish" <=> r[1] > 0
           /\ trend = "bearish" <=> r[1] < 0
           /\ trend = "neutral" <=> r[1] = 0
           /\ p0 > 0 => /\ trend = "bullish" <=> pn > p0
                        /\ trend = "bearish" <=> pn < p0
           /\ p0 < 0 => /\ trend = "bullish" <=> pn < p0
                        /\ trend = "bearish" <=> pn > p0
           /\ trend = "neutral" <=> pn = p0

\* A session with a negative initial price and a higher last price has been
\* written with the label bearish.
C19_Witness ==
    \E w \in WithAnalytics :
       /\ w.initial_price < 0
       /\ Last(w.price_data)[2] > w.initial_price
       /\ w.analytics.trend_direction = "bearish"

NoDetectionYet == \A s \in Symbols : history[s] = <<>> \/ Last(history[s])[1] < now

\* C20 as stated: the tracker pass of an iteration runs only after that
\* iteration's detection, i.e. when every enabled symbol that has a price
\* has had its window updated at `now`.
C20_DetectionBeforeTracker ==
    (pc \in {"track", "track_loop"}) =>
        \A s \in Symbols :
           Updated(s) => (history[s] # <<>> /\ Last(history[s]) = <<now, prices[s]>>)

\* C20, amended: in an iteration with prices the tracker pass comes first,
\* right after the feed test and before any window is updated or any alert
\* is sent; the detection follows and only adds sessions, which the tracker
\* does not see before the next iteration; then the loop sleeps.
C20_TrackerBeforeDetection ==
    [][ /\ pc = "fetch" => pc' \in {"track", "sleep"}
        /\ pc \in {"track", "track_loop"} =>
              /\ NoDetectionYet /\ alerts = <<>>
              /\ UNCHANGED <<history, alerts>>
              /\ pc' \in {"track_loop", "update", "crashed"}
        /\ pc \in {"update", "change", "alert"} =>
              /\ pc' \in {"update", "change", "alert", "sleep", "crashed"}
              /\ Len(tracking_sessions') >= Len(tracking_sessions)
              /\ SubSeq(tracking_sessions', 1, Len(tracking_sessions)) = tracking_sessions
              /\ UNCHANGED <<saved, save_calls>>
        /\ pc = "sleep" => pc' = "fetch" /\ UNCHANGED tracking_sessions
      ]_vars

\* The tracker pass of an iteration has appended a sample and removed a
\* session while no window has been updated in that iteration yet.
C20_Witness ==
    /\ pc = "update" /\ idx = 1
    /\ NoDetectionYet
    /\ saved # <<>>
    /\ \E i \in 1..Len(tracking_sessions) :
          /\ Len(tracking_sessions[i].price_data) >= 2
          /\ FromIsoFormat(Last(tracking_sessions[i].price_data)[1]) >= now

\* The rise and the fall condition of the evaluation the loop is at, from
\* the window and the configuration.
RiseCondition ==
    LET c == state[CurrentSymbol]
        oldest == history[CurrentSymbol][1][2]
    IN  c.alert_on_up /\ (prices[CurrentSymbol] - oldest) * 100 >= c.threshold * oldest

FallCondition ==
    LET c == state[CurrentSymbol]
        oldest == history[CurrentSymbol][1][2]
    IN  c.alert_on_down /\ (prices[CurrentSymbol] - oldest) * 100 <= (-c.threshold) * oldest

\* C21: when the rise and the fall condition both hold in an evaluation
\* (which needs threshold <= 0 and both flags), the evaluation sends two
\* distinct alerts for the symbol, the rise alert and then the fall alert,
\* after those already sent in the iteration.
C21_BothAlertsRiseFirst ==
    [][ (pc = "alert" /\ RiseCondition /\ FallCondition) =>
           /\ history[CurrentSymbol][1][2] > 0
           /\ state[CurrentSymbol].threshold <= 0
           /\ state[CurrentSymbol].alert_on_up /\ state[CurrentSymbol].alert_on_down
           /\ Len(alerts') = Len(alerts) + 2
           /\ SubSeq(alerts', 1, Len(alerts)) = alerts
           /\ NewAlerts[1].symbol = CurrentSymbol /\ NewAlerts[1].kind = "increased"
           /\ NewAlerts[2].symbol = CurrentSymbol /\ NewAlerts[2].kind = "decreased"
           /\ NewAlerts[1] # NewAlerts[2]
      ]_vars

\* Under a negative threshold a rise of 6 percent has been reported by a
\* rise alert followed by a fall alert.
C21_Witness ==
    /\ Len(alerts) = 2
    /\ state[alerts[1].symbol].threshold < 0
    /\ alerts[1].kind = "increased" /\ alerts[1].pct = <<6, 1>>
    /\ alerts[2].kind = "decreased" /\ alerts[2].symbol = alerts[1].symbol

AlertsFor(s) == {i \in 1..Len(alerts) : alerts[i].symbol = s}

\* C22: with threshold > 0 the rise and the fall condition of an evaluation
\* are never both true, and at most one alert is sent per symbol in an
\* iteration.
C22_AtMostOneAlertPerSymbol ==
    /\ \A s \in Symbols : state[s].threshold > 0 => Cardinality(AlertsFor(s)) <= 1
    /\ (pc = "alert" /\ state[CurrentSymbol].threshold > 0)
          => ~(RiseCondition /\ FallCondition)

\* The end of an iteration in which a symbol with a positive threshold and
\* both flags set got its one alert, a fall alert.
C22_Witness ==
    /\ pc = "sleep"
    /\ \E s \in Symbols :
          /\ state[s].threshold > 0
          /\ state[s].alert_on_up /\ state[s].alert_on_down
          /\ \E i \in AlertsFor(s) : alerts[i].kind = "decreased"

\* C23: a symbol whose configuration has enabled = false is never
\* processed: its window stays empty, no alert is sent for it, and no
\* session is created for it (none is active, none is handed to the save
\* step), whatever the feed reports.
C23_DisabledNeverProcessed ==
    \A s \in Symbols :
       ~state[s].enabled =>
          /\ history[s] = <<>>
          /\ last_alert[s] = <<>>
          /\ AlertsFor(s) = {}
          /\ ~IsTracking(tracking_sessions, s)
          /\ \A k \in 1..Len(save_calls) : save_calls[k][1] # s

\* The end of a later iteration in which the disabled symbol had a price
\* and the enabled one was updated and alerted.
C23_Witness ==
    /\ pc = "sleep" /\ now > 0
    /\ \E s \in Symbols :
          /\ ~state[s].enabled
          /\ s \in DOMAIN prices
    /\ \E s \in AlertedSymbols : state[s].enabled

\* C26: after every window update (append, then prune) with a window
\* length >= 0 the window is not empty, its timestamps are non-decreasing,
\* its last element is the sample appended in this iteration, it holds
\* every sample of the window and the new one that is not older than
\* now - window, in their order, and so its first element is the oldest of
\* them; the branch for a window empty after pruning is not taken.
C26_WindowAfterUpdate ==
    [][ (pc = "update" /\ Updated(CurrentSymbol)
           /\ state[CurrentSymbol].window_minutes >= 0) =>
          LET h0 == Append(history[CurrentSymbol], <<now, prices[CurrentSymbol]>>)
              h1 == history'[CurrentSymbol]
              cutoff == now - state[CurrentSymbol].window_minutes
              inside == {i \in 1..Len(h0) : h0[i][1] >= cutoff}
          IN  /\ h1 # <<>>
              /\ \A i \in 1..(Len(h1) - 1) : h1[i][1] <= h1[i + 1][1]
              /\ Last(h1) = <<now, prices[CurrentSymbol]>>
              /\ Len(h1) = Cardinality(inside)
              /\ h1 = SubSeq(h0, Len(h0) - Len(h1) + 1, Len(h0))
              /\ \A i \in inside : h1[1][1] <= h0[i][1]
              /\ pc' = "change"
      ]_vars

\* A window of length zero that never had an alert has just been updated
\* in a later iteration and holds the new sample only.
C26_Witness ==
    /\ pc = "change" /\ now > 0
    /\ state[CurrentSymbol].window_minutes = 0
    /\ last_alert[CurrentSymbol] = <<>>
    /\ history[CurrentSymbol] = << <<now, prices[CurrentSymbol]>> >>

\* The deliveries that failed among the messages sent by the step.
NewSendFailed == SubSeq(send_failed', Len(send_failed) + 1, Len(send_failed'))

\* C24: a failed delivery neither blocks nor aborts the handling of the
\* alert.  When a message of an evaluation is not delivered, the symbol is
\* tracked after the step (by a session started in it from the triggering
\* price if it had none, by its unchanged session otherwise), its window is
\* the single sample (now, triggering price), and the loop goes on with the
\* next symbol or, after the last, with the sleep; an iteration in which a
\* delivery failed ends with every enabled symbol that has a price updated,
\* and its sleep leads to the next iteration.
C24_FailedDeliveryDoesNotAbort ==
    [][ /\ (pc = "alert" /\ TRUE \in SeqToSet(NewSendFailed)) =>
              LET s == CurrentSymbol IN
              /\ Len(NewSendFailed) = Len(NewAlerts)
              /\ history'[s] = << <<now, prices[s]>> >>
              /\ IsTracking(tracking_sessions', s)
              /\ IF IsTracking(tracking_sessions, s)
                 THEN tracking_sessions' = tracking_sessions
                 ELSE LET new == SessionOf(tracking_sessions', s) IN
                      /\ new.initial_price = prices[s]
                      /\ new.start_time = IsoFormat(clock')
                      /\ new.price_data = << <<new.start_time, prices[s]>> >>
                      /\ new.threshold_type
                            = (IF NewAlerts[1].kind = "increased" THEN "up" ELSE "down")
              /\ IF idx < Len(SymOrder)
                 THEN pc' = "update" /\ idx' = idx + 1
                 ELSE pc' = "sleep"
        /\ (pc # "sleep" /\ pc' = "sleep" /\ TRUE \in SeqToSet(send_failed')) =>
              \A s \in Symbols :
                 Updated(s) => (history'[s] # <<>> /\ Last(history'[s]) = <<now, prices[s]>>)
        /\ (pc = "sleep" /\ TRUE \in SeqToSet(send_failed)) =>
              /\ pc' = "fetch"
              /\ UNCHANGED <<history, tracking_sessions>>
      ]_vars

\* The end of a later iteration in which the alert of the first symbol was
\* not delivered and started its session, and the second symbol was updated
\* after it.
C24_Witness ==
    /\ pc = "sleep" /\ now > 0
    /\ \E i \in 1..Len(alerts) :
          /\ send_failed[i]
          /\ alerts[i].symbol = SymOrder[1]
          /\ IsTracking(tracking_sessions, SymOrder[1])
          /\ FromIsoFormat(SessionOf(tracking_sessions, SymOrder[1]).start_time) >= now
          /\ history[SymOrder[1]] = << <<now, prices[SymOrder[1]]>> >>
    /\ state[SymOrder[2]].enabled
    /\ SymOrder[2] \in DOMAIN prices
    /\ Last(history[SymOrder[2]]) = <<now, prices[SymOrder[2]]>>

\* C25 as stated: once a stop has been asked for, the loop ends before its
\* next sleep, i.e. it takes no sleep after the request (and the windows and
\* the sessions are as they were when it ends).
C25_StopsBeforeNextSleep ==
    [][ stop_requested => ~(pc = "sleep" /\ pc' = "fetch") ]_vars

SampleTimes(info) ==
    {FromIsoFormat(info.price_data[i][1]) : i \in 1..Len(info.price_data)}

\* C27: no session, active or written, holds a sample taken at or after
\* its end_time; the pass that hands a session to the save step appends
\* nothing to it, so the record written has the samples the session had
\* before the pass, and the final price of its analytics is the price of
\* the last of them (the initial price for a session with one sample).
C27_NoSampleAtOrAfterEnd ==
    [][ /\ \A i \in 1..Len(tracking_sessions') :
              \A t \in SampleTimes(tracking_sessions'[i]) :
                 t < FromIsoFormat(tracking_sessions'[i].end_time)
        /\ \A k \in 1..Len(saved') :
              /\ \A t \in SampleTimes(saved'[k]) : t < FromIsoFormat(saved'[k].end_time)
              /\ "analytics" \in DOMAIN saved'[k] =>
                    saved'[k].analytics.final_price = Last(saved'[k].price_data)[2]
              /\ Len(saved'[k].price_data) = 1 =>
                    Last(saved'[k].price_data)[2] = saved'[k].initial_price
        /\ \A info \in HandedSessions :
              \A w \in WrittenFor(info) : w.price_data = info.price_data
      ]_vars

\* A pass has just written a session that was sampled one interval before
\* its end_time and not after, from a clock reading past the end_time.
C27_Witness ==
    /\ pc = "update"
    /\ \E k \in 1..Len(saved) :
          /\ Len(saved[k].price_data) = 2
          /\ FromIsoFormat(Last(saved[k].price_data)[1])
                = FromIsoFormat(saved[k].end_time) - 1
          /\ clock > FromIsoFormat(saved[k].end_time)

SessionFields ==
    {"symbol", "start_time", "end_time", "initial_price", "threshold_type",
     "threshold_value", "window_minutes", "session_id"}

\* C28: while a session is active none of its fields symbol, start_time,
\* end_time, initial_price, threshold_type, threshold_value, window_minutes
\* and session_id changes, its first sample stays (start_time,
\* initial_price), and its samples change only by one sample appended at
\* the end, with a timestamp not before the last one; only the tracker
\* pass changes a session: every other step of the loop leaves the
\* sessions that exist as they are.
C28_ActiveSessionOnlyGrows ==
    [][ \A i \in 1..Len(tracking_sessions) :
          LET info == tracking_sessions[i] IN
          IsTracking(tracking_sessions', info.symbol) =>
             LET new == SessionOf(tracking_sessions', info.symbol) IN
             /\ \A f \in SessionFields : new[f] = info[f]
             /\ new.price_data[1] = <<info.start_time, info.initial_price>>
             /\ Len(new.price_data) \in {Len(info.price_data), Len(info.price_data) + 1}
             /\ SubSeq(new.price_data, 1, Len(info.price_data)) = info.price_data
             /\ \A j \in 1..(Len(new.price_data) - 1) :
                   FromIsoFormat(new.price_data[j][1])
                      <= FromIsoFormat(new.price_data[j + 1][1])
             /\ pc # "track_loop" => new = info
      ]_vars

\* The end of an iteration whose tracker pass appended a sample to a
\* session and whose detection sent an alert for the session's symbol.
C28_Witness ==
    /\ pc = "sleep"
    /\ \E s \in AlertedSymbols :
          /\ IsTracking(tracking_sessions, s)
          /\ Len(SessionOf(tracking_sessions, s).price_data) = 2
          /\ FromIsoFormat(Last(SessionOf(tracking_sessions, s).price_data)[1]) >= now
          /\ Last(SessionOf(tracking_sessions, s).price_data)[2]
                # SessionOf(tracking_sessions, s).initial_price

\* C29 as stated: the tracker pass comes before the detection of an
\* iteration, so during the detection no active session is at or past its
\* end_time (it has been removed); an alert therefore leaves its symbol with
\* a session that is not expired, a new one if the old one expired in this
\* iteration; and a session created in an iteration still has its initial
\* sample only when the iteration ends.
C29_ExpiredRemovedBeforeAlerts ==
    [][ /\ pc \in {"update", "change", "alert"} =>
              \A i \in 1..Len(tracking_sessions) :
                 now < FromIsoFormat(tracking_sessions[i].end_time)
        /\ (pc = "alert" /\ NewAlerts # <<>>) =>
              /\ IsTracking(tracking_sessions', CurrentSymbol)
              /\ now < FromIsoFormat(SessionOf(tracking_sessions', CurrentSymbol).end_time)
        /\ (pc # "sleep" /\ pc' = "sleep") =>
              \A i \in 1..Len(tracking_sessions') :
                 FromIsoFormat(tracking_sessions'[i].start_time) >= now'
                    => Len(tracking_sessions'[i].price_data) = 1
      ]_vars

\* The sessions whose file write failed in the step.
NewSaveFailed == SubSeq(save_failed', Len(save_failed) + 1, Len(save_failed'))

\* C30 as stated: when the write of a finalized session fails, the failure
\* is swallowed and the session is removed in the same pass: the pass
\* returns to the loop, the session is no longer active, its symbol is free
\* for a new session, and it is never handed to the save step again.
C30_FailedWriteStillRemoves ==
    [][ /\ \A id \in SeqToSet(NewSaveFailed) :
              /\ pc = "track_loop" /\ pc' = "update"
              /\ id \in SeqToSet(NewSaveCalls)
              /\ id \notin ActiveIds(tracking_sessions')
              /\ ~IsTracking(tracking_sessions', id[1])
        /\ NoDuplicates(save_calls')
      ]_vars

\* What holds of a failed write in every pass: nothing is written for the
\* session, and if the pass returns the session has been removed; a pass
\* that does not return was ended by another session, one with a price 0.
C30_FailedWriteRemovedIfPassReturns ==
    [][ /\ \A id \in SeqToSet(NewSaveFailed) :
              /\ pc = "track_loop"
              /\ id \in SeqToSet(NewSaveCalls)
              /\ \A k \in 1..Len(saved') : saved'[k].session_id # id
              /\ IF pc' = "crashed"
                 THEN \E i \in 1..Len(tracking_sessions) :
                         /\ tracking_sessions[i].session_id # id
                         /\ \/ tracking_sessions[i].initial_price = 0
                            \/ \E j \in 1..Len(tracking_sessions[i].price_data) :
                                  tracking_sessions[i].price_data[j][2] = 0
                 ELSE /\ pc' = "update"
                      /\ id \notin ActiveIds(tracking_sessions')
                      /\ ~IsTracking(tracking_sessions', id[1])
        /\ NoDuplicates(save_calls')
      ]_vars

\* The end of an iteration whose tracker pass failed to write a session and
\* whose detection started a new session for the same symbol.
C30_FreeAfterFailedWrite ==
    /\ pc = "sleep"
    /\ \E k \in 1..Len(save_failed) :
          /\ IsTracking(tracking_sessions, save_failed[k][1])
          /\ SessionOf(tracking_sessions, save_failed[k][1]).session_id # save_failed[k]

\* The sessions of a symbol, by position.
SessionsFor(ts, s) == {i \in 1..Len(ts) : ts[i].symbol = s}

\* C31: when the rise and the fall condition both hold in an evaluation for
\* a symbol without an active session, the evaluation creates exactly one
\* session for it, of direction up, triggered by the signed change and
\* holding the alert price as its only sample; the fall alert is sent
\* second, the window is reset to the current sample, and every other
\* session is left as it was.
C31_BothAlertsOneUpSession ==
    [][ (pc = "alert" /\ RiseCondition /\ FallCondition
           /\ SessionsFor(tracking_sessions, CurrentSymbol) = {}) =>
           /\ pc' # "crashed"
           /\ Len(tracking_sessions') = Len(tracking_sessions) + 1
           /\ SubSeq(tracking_sessions', 1, Len(tracking_sessions)) = tracking_sessions
           /\ SessionsFor(tracking_sessions', CurrentSymbol) = {Len(tracking_sessions')}
           /\ LET info == tracking_sessions'[Len(tracking_sessions')]
              IN  /\ info.threshold_type = "up"
                  /\ info.threshold_value = percentage_change
                  /\ info.initial_price = prices[CurrentSymbol]
                  /\ info.window_minutes = state[CurrentSymbol].window_minutes
                  /\ info.start_time = IsoFormat(clock')
                  /\ info.price_data = << <<IsoFormat(clock'), prices[CurrentSymbol]>> >>
           /\ Len(NewAlerts) = 2
           /\ NewAlerts[2].symbol = CurrentSymbol /\ NewAlerts[2].kind = "decreased"
           /\ NewAlerts[2].pct = RatAbs(percentage_change)
           /\ history'[CurrentSymbol] = << <<now, prices[CurrentSymbol]>> >>
      ]_vars

\* A fall of 106 to 100 under threshold -6 has been reported by both alerts
\* and has started the symbol's only session, of direction up with the
\* negative change as its trigger value.
C31_Witness ==
    /\ Len(alerts) = 2
    /\ alerts[1].kind = "increased" /\ alerts[2].kind = "decreased"
    /\ alerts[2].symbol = alerts[1].symbol
    /\ alerts[2].pct = <<300, 53>>
    /\ \E i \in 1..Len(tracking_sessions) :
          /\ SessionsFor(tracking_sessions, alerts[1].symbol) = {i}
          /\ tracking_sessions[i].threshold_type = "up"
          /\ tracking_sessions[i].threshold_value = <<-300, 53>>
          /\ Len(tracking_sessions[i].price_data) = 1
          /\ FromIsoFormat(tracking_sessions[i].start_time) >= now

====
